---------------------------- MODULE Spec2Model ----------------------------
(***************************************************************************)
(* A model of zap (src/src/zap.ts), a small HTTP routing layer for Node.   *)
(*                                                                         *)
(* The source file holds two generations of the library:                   *)
(*   "loop"  : lines 1-343, router() is a for-loop over RouteHandlers,     *)
(*             serve() knows RedirectError and options.errorHandler;       *)
(*   "chain" : lines 344-669, router() chains middleware through `next`,   *)
(*             serve() knows options.onError.                              *)
(* The variable impl says which generation a behaviour runs.               *)
(*                                                                         *)
(* The specifications of the module:                                       *)
(*   Spec       : one request through serve() -> router() -> route()       *)
(*   SpecBody   : calls of buffer()/text()/json() on one request           *)
(*   SpecDirect : as Spec, a single route() given to serve() as handler    *)
(*   SpecValid  : as Spec, with routes that carry a body validator         *)
(*   SpecReq    : reads of the derived accessors, the body and the params  *)
(*                of two requests that are in flight together              *)
(*   SpecFrom   : calls of a function wrapped by fromRequest()             *)
(*   SpecNested : as Spec, the router nested as first entry of an outer     *)
(*                router (chain generation)                                *)
(***************************************************************************)
EXTENDS Integers, Sequences, FiniteSets, TLC

VARIABLES
    impl,       \* "loop" | "chain": which generation of the source runs
    isDev,      \* IS_DEV (process.env.NODE_ENV === 'development')
    options,    \* ServeOptions: errorHandler (loop), onError (chain)
    routes,     \* the handlers given to router(), in registration order
    innerLen,   \* SpecNested: how many of them are given to a router that is
                \* itself the first entry of an outer router; the rest are
                \* the outer router's later entries
    req,        \* the request: method, pathname, params
    res,        \* the http.ServerResponse
    stack,      \* the pending async frames, innermost last
    ret,        \* completion handed to the innermost frame
    outcome,    \* the listener's promise: pending | resolved | rejected
    invoked,    \* log: indices of the routes whose user handler was called
    nextCalls,  \* log: how often user handlers called their `next`
    lastFin,    \* log: how the user handler that ran last ends, until a route takes its value
    routeLog,   \* log: the response dispatch of a route, if the last step was one
    errLog,     \* log: error handlers that serve() invoked
    caught,     \* log: what serve()'s catch block saw
    bodyReq,    \* SpecBody: headers and stream content of the request
    bodyCache,  \* SpecBody: requestBodyMap.get(req)
    rawStarts,  \* SpecBody: how often getRawBody(req) was started
    calls,      \* SpecBody: the calls of buffer/text/json made so far
    trustProxy, \* SpecReq: options.trustProxy
    httpReqs,   \* SpecReq: the http.IncomingMessage objects in flight
    cache,      \* SpecReq: the WeakMap `cache` of each wrapped function or getter
    errorCache, \* SpecReq: the WeakMap `errorCache` of each wrapped function
    requestBodyMap, \* SpecReq: the WeakMap requestBodyMap
    fnCalls,    \* log: how often each wrapped function ran, per request
    firstRead,  \* log: how the first read of each accessor ended, per request
    lastRead,   \* log: the read made by the last step
    reads       \* log: the number of reads made

vars == <<impl, isDev, options, routes, innerLen, req, res, stack, ret, outcome,
          invoked, nextCalls, lastFin, routeLog, errLog, caught,
          bodyReq, bodyCache, rawStarts, calls,
          trustProxy, httpReqs, cache, errorCache, requestBodyMap,
          fnCalls, firstRead, lastRead, reads>>

lifeVars == <<impl, isDev, options, routes, innerLen, req, res, stack, ret, outcome,
              invoked, nextCalls, lastFin, routeLog, errLog, caught>>

bodyVars == <<bodyReq, bodyCache, rawStarts, calls>>

reqVars == <<trustProxy, httpReqs, cache, errorCache, requestBodyMap,
             fnCalls, firstRead, lastRead, reads>>

(***************************************************************************)
(* Bounds of the model.                                                    *)
(***************************************************************************)
MaxRoutes == 2

MaxNext == 2

MaxCalls == 3

MaxReads == 3

(***************************************************************************)
(* JavaScript values.  Every value is a record [t, code, v]: t is the      *)
(* runtime type, code the number it carries, v the text it carries.        *)
(***************************************************************************)
Val(t, code, v) == [t |-> t, code |-> code, v |-> v]

Undefined == Val("undefined", 0, "")

Null == Val("null", 0, "")

Str(s) == Val("string", 0, s)

Num(n) == Val("number", n, "")

\* the object {[k]: n}
Obj(k, n) == Val("object", n, k)

Buf(s) == Val("buffer", 0, s)

Stream(s) == Val("stream", 0, s)

\* new Error(m)
PlainError(m) == Val("Error", 0, m)

\* what http.ServerResponse.setHeader throws once the headers are sent
HeadersSentError == Val("Error", 0, "Cannot set headers after they are sent to the client")

NoErr == Val("none", 0, "")

httpError(code, message) == Val("HttpError", code, message)

createError(code, message) == Val("HttpError", code, message)

\* statusCode = 0 stands for an omitted argument
redirect(location, statusCode) ==
    Val("RedirectError", IF statusCode = 0 THEN 303 ELSE statusCode, location)

notFound == httpError(404, "Not Found")

\* the runtime types that are `instanceof Error`
ErrorTypes == {"Error", "HttpError", "RedirectError", "TypeError", "SyntaxError", "RangeError"}

isError(x) == x.t \in ErrorTypes

Digit(n) == CASE n = 0 -> "0" [] n = 1 -> "1" [] n = 2 -> "2" [] n = 3 -> "3"
              [] n = 4 -> "4" [] n = 5 -> "5" [] n = 6 -> "6" [] n = 7 -> "7"
              [] n = 8 -> "8" [] n = 9 -> "9"

RECURSIVE NumToString(_)
NumToString(n) ==
    IF n < 0 THEN "-" \o NumToString(0 - n)
    ELSE IF n < 10 THEN Digit(n)
    ELSE NumToString(n \div 10) \o Digit(n % 10)

\* what res.end throws when it has to write the head and res.statusCode is
\* not a status code
InvalidStatusCode(code) ==
    Val("RangeError", 0, "Invalid status code: " \o NumToString(code))

\* error.message
message(e) ==
    IF e.t = "RedirectError"
    THEN "Redirect to " \o e.v \o ", status code " \o NumToString(e.code)
    ELSE e.v

\* error.stack: the error's name and message, followed by the frames.  The
\* constructor of the loop generation's HttpError cuts the trace at
\* RedirectError, which is not on the call stack: no frame is left.
stack_(e) ==
    LET name == IF e.t \in {"TypeError", "SyntaxError"} THEN e.t
                ELSE IF e.t = "RangeError" THEN "RangeError [ERR_HTTP_INVALID_STATUS_CODE]"
                ELSE IF e = HeadersSentError THEN "Error [ERR_HTTP_HEADERS_SENT]"
                ELSE "Error"
        frames == IF e.t = "HttpError" /\ impl = "loop" THEN ""
                  ELSE "\n    at handler (app.js:1:1)"
    IN name \o ": " \o message(e) \o frames

\* String(x), as in the template literal `${x}`
String(x) ==
    IF x.t \in {"string", "buffer"} THEN x.v
    ELSE IF x.t = "number" THEN NumToString(x.code)
    ELSE IF x.t = "null" THEN "null"
    ELSE IF x.t = "undefined" THEN "undefined"
    ELSE IF isError(x)
    THEN (IF x.t \in {"TypeError", "SyntaxError"} THEN x.t
          ELSE IF x.t = "RangeError" THEN "RangeError [ERR_HTTP_INVALID_STATUS_CODE]"
          ELSE IF x = HeadersSentError THEN "Error [ERR_HTTP_HEADERS_SENT]"
          ELSE "Error") \o ": " \o message(x)
    ELSE "[object Object]"

\* JSON.stringify of a number, of the object {[k]: n}, or of an Error (whose
\* message and stack are not enumerable; statusCode and location are)
JSONstringify(x) ==
    IF x.t = "number" THEN NumToString(x.code)
    ELSE IF x.t = "object" THEN "{\"" \o x.v \o "\":" \o NumToString(x.code) \o "}"
    ELSE IF x.t = "HttpError" THEN "{\"statusCode\":" \o NumToString(x.code) \o "}"
    ELSE IF x.t = "RedirectError"
    THEN "{\"statusCode\":" \o NumToString(x.code) \o ",\"location\":\"" \o x.v \o "\"}"
    ELSE IF x.t = "RangeError" THEN "{\"code\":\"ERR_HTTP_INVALID_STATUS_CODE\"}"
    ELSE IF x = HeadersSentError THEN "{\"code\":\"ERR_HTTP_HEADERS_SENT\"}"
    ELSE IF x.t = "TypeError" /\ "input" \in DOMAIN x
    THEN "{\"code\":\"ERR_INVALID_URL\",\"input\":\"" \o x.input
         \o "\",\"base\":\"" \o x.base \o "\"}"
    ELSE "{}"

(***************************************************************************)
(* http.ServerResponse (Node): the part of it the library drives.          *)
(***************************************************************************)
HeaderNames == {"Content-Type", "Content-Length", "Location"}

\* a header holds the value it was set to (a string or a number), Undefined
\* when it is not set; hasBody is what Node decides when it sends the head:
\* a response with status 204, 304 or 1xx has no body
NewResponse ==
    [statusCode    |-> 200,
     headers       |-> [h \in HeaderNames |-> Undefined],
     body          |-> "",
     hasBody       |-> TRUE,
     writableEnded |-> FALSE,
     headersSent   |-> FALSE,
     endCalls      |-> 0,
     piped         |-> FALSE,
     pipeData      |-> "",
     streams       |-> <<>>]

Ok(r) == [res |-> r, err |-> NoErr]

Threw(r, e) == [res |-> r, err |-> e]

\* run f on the response of x unless x threw
Then(x, f(_)) == IF x.err # NoErr THEN x ELSE f(x.res)

getHeader_res(r, name) == r.headers[name]

\* res.setHeader throws ERR_HTTP_HEADERS_SENT after the headers went out
setHeader(r, name, value) ==
    IF r.headersSent THEN Threw(r, HeadersSentError)
    ELSE Ok([r EXCEPT !.headers[name] = value])

\* res.write(chunk): sends the head with the first chunk; a write after the
\* end writes nothing (the stream gets an 'error' event, nothing is thrown);
\* a write that has to send the head throws when res.statusCode is not in
\* 100..999; the chunk is dropped when the response has no body
resWrite(r, chunk) ==
    LET hasBody == IF r.headersSent THEN r.hasBody
                   ELSE r.statusCode \notin ({204, 304} \cup (100..199))
    IN
    IF r.writableEnded THEN Ok(r)
    ELSE IF ~r.headersSent /\ (r.statusCode < 100 \/ r.statusCode > 999)
    THEN Threw(r, InvalidStatusCode(r.statusCode))
    ELSE Ok([r EXCEPT !.body = IF hasBody THEN @ \o chunk ELSE @,
                      !.hasBody = hasBody,
                      !.headersSent = TRUE])

\* res.end(data): counts every call; a call after the end writes nothing;
\* a call that has to write the head throws when res.statusCode is not in
\* 100..999; the data is dropped when the response has no body
resEnd(r, data) ==
    LET hasBody == IF r.headersSent THEN r.hasBody
                   ELSE r.statusCode \notin ({204, 304} \cup (100..199))
    IN
    IF ~r.headersSent /\ (r.statusCode < 100 \/ r.statusCode > 999)
    THEN Threw([r EXCEPT !.endCalls = @ + 1], InvalidStatusCode(r.statusCode))
    ELSE Ok([r EXCEPT !.endCalls = @ + 1,
                      !.body = IF r.writableEnded \/ ~hasBody THEN @ ELSE @ \o data,
                      !.hasBody = hasBody,
                      !.writableEnded = TRUE,
                      !.headersSent = TRUE])

\* body.pipe(res): the stream's chunks and its end arrive on later turns of
\* the event loop (PipeData, PipeEnd); streams lists the streams piped into
\* the response and not unpiped, with what each has still to do
pipe(r, data) ==
    [r EXCEPT !.piped = TRUE, !.pipeData = data,
              !.streams = Append(@, [data |-> data, written |-> FALSE])]

(***************************************************************************)
(* Response Sender.                                                        *)
(***************************************************************************)
\* Buffer.byteLength(s), body.length: a number
byteLength(s) == Num(Len(s))

\* `if (!res.getHeader('Content-Type')) res.setHeader('Content-Type', ct)`:
\* an unset header, an empty string and the number 0 are falsy
defaultContentType(r, ct) ==
    LET h == getHeader_res(r, "Content-Type") IN
    IF h.t = "undefined" \/ (h.t = "string" /\ h.v = "") \/ (h.t = "number" /\ h.code = 0)
    THEN setHeader(r, "Content-Type", Str(ct))
    ELSE Ok(r)

\* the part of send() shared by both generations: stream, Buffer, JSON, string
sendBody(r, body) ==
    IF body.t = "stream"
    THEN Then(defaultContentType(r, "application/octet-stream"),
              LAMBDA r1 : Ok(pipe(r1, body.v)))
    ELSE IF body.t = "buffer"
    THEN Then(defaultContentType(r, "application/octet-stream"),
              LAMBDA r1 : Then(setHeader(r1, "Content-Length", byteLength(body.v)),
                               LAMBDA r2 : resEnd(r2, body.v)))
    ELSE IF body.t \in {"object", "number"} \cup ErrorTypes
    THEN Then(defaultContentType(r, "application/json; charset=utf-8"),
              LAMBDA r1 : Then(setHeader(r1, "Content-Length", byteLength(JSONstringify(body))),
                               LAMBDA r2 : resEnd(r2, JSONstringify(body))))
    ELSE Then(setHeader(r, "Content-Length", byteLength(body.v)),
              LAMBDA r1 : resEnd(r1, body.v))

\* send() of the loop generation: an Error body is rethrown
send(r, code, body) ==
    LET r0 == [r EXCEPT !.statusCode = code] IN
    IF body.t \in {"null", "undefined"} THEN resEnd(r0, "")
    ELSE IF isError(body) THEN Threw(r0, body)
    ELSE sendBody(r0, body)

\* send() of the chain generation: no case for Error
sendChain(r, code, body) ==
    LET r0 == [r EXCEPT !.statusCode = code] IN
    IF body.t \in {"null", "undefined"} THEN resEnd(r0, "")
    ELSE sendBody(r0, body)

\* sendError() of the loop generation
sendError(r, error) ==
    IF error.t = "HttpError" THEN send(r, error.code, Str(message(error)))
    ELSE IF isError(error)
    THEN send(r, 500, Str(IF isDev THEN stack_(error) ELSE message(error)))
    ELSE send(r, 500, Str(String(error)))

\* sendError() of the chain generation; code 0 is an error without statusCode.
\* Reading error.statusCode of null or undefined throws.
sendErrorChain(r, error) ==
    LET statusCode == IF error.t = "HttpError" THEN error.code ELSE 0
        msg == IF statusCode # 0 THEN message(error) ELSE "Internal Server Error"
        stk == IF isError(error) THEN Str(stack_(error)) ELSE Undefined
    IN IF error.t \in {"null", "undefined"}
       THEN Threw(r, Val("TypeError", 0, "Cannot read properties of " \o error.t
                                         \o " (reading 'statusCode')"))
       ELSE sendChain(r, IF error.t = "HttpError" THEN statusCode ELSE 500,
                      IF isDev THEN stk ELSE Str(msg))

(***************************************************************************)
(* Path Matcher (path-to-regexp match()).  A template is a sequence of     *)
(* segments, each a literal or a named parameter; a pathname is a sequence *)
(* of segment texts.  params is a set of <<name, value>> pairs.            *)
(***************************************************************************)
Lit(s) == [param |-> FALSE, s |-> s]

Par(s) == [param |-> TRUE, s |-> s]

NoMatch == [ok |-> FALSE, params |-> {}]

RECURSIVE matchFrom(_, _, _, _)
matchFrom(template, pathname, i, params) ==
    IF i > Len(template) THEN [ok |-> TRUE, params |-> params]
    ELSE IF template[i].param
    THEN matchFrom(template, pathname, i + 1, params \cup {<<template[i].s, pathname[i]>>})
    ELSE IF template[i].s = pathname[i]
    THEN matchFrom(template, pathname, i + 1, params)
    ELSE NoMatch

\* match(path)(pathname): anchored to the whole pathname
matchPath(template, pathname) ==
    IF Len(template) # Len(pathname) THEN NoMatch
    ELSE matchFrom(template, pathname, 1, {})

(***************************************************************************)
(* The inputs of one exchange.                                             *)
(***************************************************************************)
Methods == {"GET", "POST"}

RequestMethods == {"GET", "POST", "DELETE"}

\* "/hello/:name", "/hello/world"
Templates == {<<Lit("hello"), Par("name")>>, <<Lit("hello"), Lit("world")>>}

\* "/hello/Ada", "/hello/world", "/unknown"
Pathnames == {<<"hello", "Ada">>, <<"hello", "world">>, <<"unknown">>}

\* a route without a body validator
RouteSet == [method : Methods, path : Templates, validator : {"none"}]

\* the lists of up to MaxRoutes routes, no route registered twice
RouteLists ==
    {l \in UNION {[1..n -> RouteSet] : n \in 0..MaxRoutes} :
        \A i, j \in 1..Len(l) : l[i] = l[j] => i = j}

NoParams == [set |-> FALSE, kv |-> {}]

\* ServeOptions: errorHandler is unset, or user code that sends nothing
\* ("silent"), or user code that calls send(res, 500, 'custom') ("send")
OptionSet(g) ==
    IF g = "loop"
    THEN [errorHandler : {"unset", "silent", "send"}, onError : {FALSE}]
    ELSE [errorHandler : {"unset"}, onError : BOOLEAN]

(***************************************************************************)
(* User handlers are the environment: each invocation does one thing to    *)
(* the response (pre), calls its `next` some number of times (chain only,  *)
(* awaiting each call), and then returns a value or throws an error.  A    *)
(* handler that sends a stream itself (pre "pipe") awaits a timer before   *)
(* it ends.                                                                *)
(***************************************************************************)
Returned(v) == [k |-> "return", v |-> v, arg |-> 0]

Thrown(e, arg) == [k |-> "throw", v |-> e, arg |-> arg]

NoFin == [k |-> "none", v |-> NoErr, arg |-> 0]

\* a handler may return an error instead of throwing it: `return notFound()`
\* (loop), `return createError(404, 'Not Found')` (chain)
ReturnValues(g) ==
    {Undefined, Null, Str("Hello Ada"), Num(42), Obj("ok", 1), Buf("bin"), Stream("data")}
    \cup (IF g = "loop" THEN {notFound} ELSE {createError(404, "Not Found")})

Fins(g) ==
    {Returned(v) : v \in ReturnValues(g)}
    \cup {Thrown(PlainError("boom"), 0)}
    \cup (IF g = "loop"
          THEN {Thrown(httpError(400, "invalid body"), 0),
                Thrown(redirect("/login", 0), 0),
                Thrown(redirect("/moved", 301), 301)}
          ELSE {Thrown(createError(400, "invalid body"), 0)})

\* the chain generation's handlers await their `next`; the loop generation's
\* have the timer to wait for
Pres(g) == {"none", "send", "status", "header", "blank"} \cup (IF g = "loop" THEN {"pipe"} ELSE {})

\* what a handler that sent or set the status first, or that delegates to
\* `next`, goes on to do
PlainFins == {Returned(Undefined), Returned(Null), Returned(Str("Hello Ada")),
              Thrown(PlainError("boom"), 0)}

\* how a handler that sent a stream and waited ends
PipeFins == PlainFins \cup {Thrown(httpError(400, "invalid body"), 0),
                            Thrown(redirect("/login", 0), 0)}

\* how a handler that was reached through a `next` call ends
NextFins == PlainFins \cup {Returned(Stream("data"))}

\* n is the number of `next` calls user code has made so far in the exchange:
\* MaxNext bounds it
Behaviours(g, n) ==
    [pre : {"none", "header"}, nexts : {0}, fin : IF n = 0 THEN Fins(g) ELSE NextFins]
    \cup [pre : {"send", "status"}, nexts : {0}, fin : PlainFins]
    \cup [pre : Pres(g) \ {"none", "header", "send", "status", "blank"}, nexts : {0},
           fin : PipeFins]
    \cup [pre : {"blank"}, nexts : {0},
           fin : {Returned(Str("Hello Ada")), Returned(Obj("ok", 1)), Returned(Buf("bin"))}]
    \cup (IF g = "loop" THEN {}
          ELSE [pre : {"none"}, nexts : 1..(MaxNext - n), fin : PlainFins])

\* what the handler does to the response before anything else
preEffect(r, pre) ==
    IF pre = "send" THEN (IF impl = "loop" THEN send(r, 200, Str("self"))
                          ELSE sendChain(r, 200, Str("self")))
    ELSE IF pre = "pipe" THEN (IF impl = "loop" THEN send(r, 200, Stream("data"))
                               ELSE sendChain(r, 200, Stream("data")))
    ELSE IF pre = "status" THEN Ok([r EXCEPT !.statusCode = 201])
    ELSE IF pre = "header" THEN setHeader(r, "Content-Type", Str("text/html"))
    ELSE IF pre = "blank" THEN setHeader(r, "Content-Type", Str(""))
    ELSE Ok(r)

(***************************************************************************)
(* Router and Route.                                                       *)
(***************************************************************************)
NoRoute == [idx |-> 0, params |-> {}]

\* router() of the loop generation: the for-loop from handler i on; idx 0
\* says that the loop ran off the end of the list
RECURSIVE routerLoop(_)
routerLoop(i) ==
    IF i > Len(routes) THEN NoRoute
    ELSE IF req.method # routes[i].method THEN routerLoop(i + 1)
    ELSE LET match == matchPath(routes[i].path, req.pathname) IN
         IF ~match.ok THEN routerLoop(i + 1)
         ELSE [idx |-> i, params |-> match.params]

\* routeHandler() without its method test
routeMatches_noMethodTest(i) == matchPath(routes[i].path, req.pathname)

\* the method and path tests that open routeHandler() of the chain generation
routeMatches(i) ==
    IF req.method # routes[i].method THEN NoMatch
    ELSE matchPath(routes[i].path, req.pathname)

\* a router that, past its own entries, goes on with the continuation it
\* was given: the outer router's next entry
current_continuation(idx) == IF idx > Len(routes) THEN 0 ELSE idx

\* `middleware[idx] ?? notFoundMiddleware` of the router that holds the first
\* innerLen entries (idx counts from 1); 0 stands for notFoundMiddleware.
\* The handler router() returns takes (req, res) only: the continuation its
\* caller passes is dropped.
current(idx) == IF idx > innerLen THEN 0 ELSE idx

\* a last middleware that returns without sending
notFoundMiddleware_silent(r) == Ok(r)

\* notFoundMiddleware of the chain generation
notFoundMiddleware(r) == sendChain(r, 404, Str("Not Found"))

Sent(x, code, body) == [res |-> x.res, err |-> x.err, sends |-> <<[code |-> code, body |-> body]>>]

\* routeHandler() that sends null with the current status instead of 204
routeRespond_nullKeepsStatus(r, responseBody) ==
    IF responseBody = Undefined THEN [res |-> r, err |-> NoErr, sends |-> <<>>]
    ELSE Sent(send(r, r.statusCode, responseBody), r.statusCode, responseBody)

\* routeHandler() of the loop generation after the user handler returned
routeRespond(r, responseBody) ==
    IF responseBody = Null THEN Sent(send(r, 204, Null), 204, Null)
    ELSE IF responseBody = Undefined THEN [res |-> r, err |-> NoErr, sends |-> <<>>]
    ELSE Sent(send(r, r.statusCode, responseBody), r.statusCode, responseBody)

\* routeHandler() of the chain generation after the user handler returned
routeRespondChain(r, responseBody) ==
    IF responseBody = Null THEN Sent(sendChain(r, 204, Null), 204, Null)
    ELSE IF responseBody # Undefined
    THEN Sent(sendChain(r, r.statusCode, responseBody), r.statusCode, responseBody)
    ELSE [res |-> r, err |-> NoErr, sends |-> <<>>]

(***************************************************************************)
(* Serve Adapter: what the catch block does with a thrown error.           *)
(* handlers lists the error handlers invoked; err is what is rethrown.     *)
(***************************************************************************)
Handled(x, names) == [res |-> x.res, err |-> x.err, handlers |-> names]

\* options.errorHandler given by the user
userErrorHandler(r, error) ==
    IF options.errorHandler = "send" THEN send(r, 500, Str("custom")) ELSE Ok(r)

\* the catch block of serve(), loop generation
serveCatch(r, error) ==
    IF r.writableEnded THEN Handled(Threw(r, error), <<>>)
    ELSE IF error.t = "RedirectError"
    THEN Handled(Then(setHeader([r EXCEPT !.statusCode = error.code], "Location", Str(error.v)),
                      LAMBDA r1 : resEnd(r1, "")), <<>>)
    ELSE IF options.errorHandler = "unset"
    THEN Handled(sendError(r, error), <<"sendError">>)
    ELSE Handled(userErrorHandler(r, error), <<"errorHandler">>)

\* the catch block of serve(), chain generation
serveCatchChain(r, error) ==
    IF options.onError THEN Handled(Ok(r), <<"onError">>)
    ELSE IF ~r.writableEnded THEN Handled(sendErrorChain(r, error), <<"sendError">>)
    ELSE Handled(Ok(r), <<>>)

(***************************************************************************)
(* Request Adapter: the derived accessors of a request, each behind a      *)
(* per-request cache.  The loop generation wraps them with fromRequest(),  *)
(* the chain generation with cachedGetter().                               *)
(***************************************************************************)
\* the request objects that are in flight together
ReqIds == {"a", "b"}

\* protocol, parsedURL (named url in the chain generation), query, and a
\* user function wrapped by fromRequest
Getters == {"protocol", "parsedURL", "query", "custom"}

\* an entry of a WeakMap: no value for the key, or the value
Absent == [has |-> FALSE, v |-> Undefined]

Present(v) == [has |-> TRUE, v |-> v]

weakHas(map, obj) == map[obj].has

weakGet(map, obj) == map[obj].v

\* a set() that stores the value for every key: a cache that is not per request
weakSet_allKeys(map, obj, v) == [o \in DOMAIN map |-> Present(v)]

weakSet(map, obj, v) == [map EXCEPT ![obj] = Present(v)]

\* a header value is its sequence of characters
NoHeader == [present |-> FALSE, chars |-> <<>>]

Header(chars) == [present |-> TRUE, chars |-> chars]

\* x-forwarded-proto: absent, "https", "https, http", " http ", "ws,https",
\* "", and "ws" between a form feed and a U+00A0
ProtoHeaders ==
    {NoHeader,
     Header(<<"h", "t", "t", "p", "s">>),
     Header(<<"h", "t", "t", "p", "s", ",", " ", "h", "t", "t", "p">>),
     Header(<<" ", "h", "t", "t", "p", " ">>),
     Header(<<"w", "s", ",", "h", "t", "t", "p", "s">>),
     Header(<<>>),
     Header(<<"\f", "w", "s", " ">>)}

\* Host: a host name, and a value the URL parser rejects
Hosts == {"example.com", "a b"}

\* the white space and line terminators that String.prototype.trim removes:
\* space, TAB, LF, CR, FF, VT, U+00A0 and U+FEFF (and further Unicode
\* spaces, which no input here holds)
Whitespace == {" ", "\t", "\n", "\r", "\f", "", " ", "﻿"}

\* String.prototype.indexOf: 0-based, -1 when the character does not occur
indexOf(chars, c) ==
    IF \E i \in 1..Len(chars) : chars[i] = c
    THEN (CHOOSE i \in 1..Len(chars) :
              chars[i] = c /\ \A j \in 1..(i - 1) : chars[j] # c) - 1
    ELSE -1

\* String.prototype.substring(start, end), 0-based, end exclusive
substring(chars, start, end) == SubSeq(chars, start + 1, end)

RECURSIVE trimStart(_)
trimStart(chars) ==
    IF chars # <<>> /\ Head(chars) \in Whitespace THEN trimStart(Tail(chars))
    ELSE chars

RECURSIVE trimEnd(_)
trimEnd(chars) ==
    IF chars # <<>> /\ chars[Len(chars)] \in Whitespace
    THEN trimEnd(SubSeq(chars, 1, Len(chars) - 1))
    ELSE chars

\* a trim() that leaves trailing whitespace
trim_startOnly(chars) == trimStart(chars)

\* String.prototype.trim
trim(chars) == trimEnd(trimStart(chars))

\* the string made of the characters
RECURSIVE join(_)
join(chars) == IF chars = <<>> THEN "" ELSE Head(chars) \o join(Tail(chars))

\* getHeader(req, 'x-forwarded-proto')
getHeader(r) == httpReqs[r].proto

\* the function behind req.protocol
protocolGetter(r) ==
    LET socketProtocol == IF httpReqs[r].encrypted THEN "https" ELSE "http"
        headerProtocol == getHeader(r)
        commaIndex == indexOf(headerProtocol.chars, ",")
    IN
    IF ~trustProxy THEN Str(socketProtocol)
    ELSE IF ~headerProtocol.present THEN Str(socketProtocol)
    ELSE IF commaIndex = -1 THEN Str(join(trim(headerProtocol.chars)))
    ELSE Str(join(trim(substring(headerProtocol.chars, 0, commaIndex))))

\* new URL(input, `${scheme}://${host}`): throws on a base it cannot parse,
\* a TypeError that carries the input and the base; input is the request's
\* [path, x], standing for `${path}?x=${x}`
newURL(input, scheme, host) ==
    IF scheme = "" \/ host = "a b" \/ host = ""
    THEN [k |-> "throw",
          v |-> [t |-> "TypeError", code |-> 0, v |-> "Invalid URL",
                 input |-> input.path \o "?x=" \o NumToString(input.x),
                 base |-> scheme \o "://" \o host]]
    ELSE [k |-> "return", v |-> Val("URL", input.x, scheme \o "://" \o host \o input.path)]

\* Object.fromEntries(url.searchParams): the object {x: '<n>'}
fromEntries(url) == [k |-> "return", v |-> Val("query", url.code, "x")]

\* the caches and the call counts that a read goes through
Store == [cache |-> cache, errorCache |-> errorCache, fnCalls |-> fnCalls]

Hit(done) == [hit |-> TRUE, done |-> done]

Miss == [hit |-> FALSE, done |-> [k |-> "none", v |-> NoErr]]

\* cachedFn() that tests the cached value for truth instead of cache.has()
fromRequestLookup_truthy(st, name, r) ==
    IF weakHas(st.errorCache[name], r)
    THEN Hit([k |-> "throw", v |-> weakGet(st.errorCache[name], r)])
    ELSE IF weakHas(st.cache[name], r)
            /\ weakGet(st.cache[name], r) \notin {Undefined, Null, Num(0), Str("")}
    THEN Hit([k |-> "return", v |-> weakGet(st.cache[name], r)])
    ELSE Miss

\* cachedFn() of fromRequest up to its try block
fromRequestLookup(st, name, r) ==
    IF weakHas(st.errorCache[name], r)
    THEN Hit([k |-> "throw", v |-> weakGet(st.errorCache[name], r)])
    ELSE IF weakHas(st.cache[name], r)
    THEN Hit([k |-> "return", v |-> weakGet(st.cache[name], r)])
    ELSE Miss

\* the try block of cachedFn() once fn has ended with done
fromRequestStore(st, name, r, done) ==
    IF done.k = "return"
    THEN [st EXCEPT !.cache[name] = weakSet(@, r, done.v)]
    ELSE [st EXCEPT !.errorCache[name] = weakSet(@, r, done.v)]

\* get() of cachedGetter up to the call of getter
cachedGetterLookup(st, name, r) ==
    IF weakHas(st.cache[name], r)
    THEN Hit([k |-> "return", v |-> weakGet(st.cache[name], r)])
    ELSE Miss

\* get() of cachedGetter once getter has ended with done: a throw leaves
\* get() before cache.set
cachedGetterStore(st, name, r, done) ==
    IF done.k = "return"
    THEN [st EXCEPT !.cache[name] = weakSet(@, r, done.v)]
    ELSE st

lookup(st, name, r) ==
    IF impl = "loop" THEN fromRequestLookup(st, name, r)
    ELSE cachedGetterLookup(st, name, r)

store(st, name, r, done) ==
    IF impl = "loop" THEN fromRequestStore(st, name, r, done)
    ELSE cachedGetterStore(st, name, r, done)

\* the wrapped function is entered
called(st, name, r) == [st EXCEPT !.fnCalls[name][r] = @ + 1]

\* a read of req.protocol
readProtocol(st, r) ==
    LET l == lookup(st, "protocol", r)
        done == [k |-> "return", v |-> protocolGetter(r)]
    IN
    IF l.hit THEN [st |-> st, done |-> l.done]
    ELSE [st |-> store(called(st, "protocol", r), "protocol", r, done), done |-> done]

\* a read of req.parsedURL (loop: the base takes req.protocol) or of req.url
\* (chain: the base is always http)
readURL(st, r) ==
    LET l == lookup(st, "parsedURL", r)
        s1 == called(st, "parsedURL", r)
        p == IF impl = "loop" THEN readProtocol(s1, r)
             ELSE [st |-> s1, done |-> [k |-> "return", v |-> Str("http")]]
        done == IF p.done.k = "throw" THEN p.done
                ELSE newURL(httpReqs[r].url, p.done.v.v, httpReqs[r].host)
    IN
    IF l.hit THEN [st |-> st, done |-> l.done]
    ELSE [st |-> store(p.st, "parsedURL", r, done), done |-> done]

\* a read of req.query, which reads req.parsedURL (req.url)
readQuery(st, r) ==
    LET l == lookup(st, "query", r)
        u == readURL(called(st, "query", r), r)
        done == IF u.done.k = "throw" THEN u.done ELSE fromEntries(u.done.v)
    IN
    IF l.hit THEN [st |-> st, done |-> l.done]
    ELSE [st |-> store(u.st, "query", r, done), done |-> done]

readGetter(st, r, name) ==
    IF name = "protocol" THEN readProtocol(st, r)
    ELSE IF name = "parsedURL" THEN readURL(st, r)
    ELSE readQuery(st, r)

\* a call of fromRequest(fn)(req) where fn, if it runs, ends with done
readCustom(st, r, done) ==
    LET l == fromRequestLookup(st, "custom", r) IN
    IF l.hit THEN [st |-> st, done |-> l.done]
    ELSE [st |-> fromRequestStore(called(st, "custom", r), "custom", r, done), done |-> done]

NoRead == [r |-> "", name |-> "", done |-> [k |-> "none", v |-> NoErr]]

IdleRequest ==
    [encrypted |-> FALSE, proto |-> NoHeader, host |-> "example.com",
     url |-> [path |-> "/", x |-> 0], pathname |-> <<>>, content |-> "",
     stream |-> "unread", params |-> [set |-> FALSE, kv |-> {}]]

EmptyCaches ==
    /\ cache = [g \in Getters |-> [r \in ReqIds |-> Absent]]
    /\ errorCache = [g \in Getters |-> [r \in ReqIds |-> Absent]]
    /\ requestBodyMap = [r \in ReqIds |-> Absent]
    /\ fnCalls = [g \in Getters |-> [r \in ReqIds |-> 0]]
    /\ firstRead = [g \in Getters |-> [r \in ReqIds |-> [k |-> "none", v |-> NoErr]]]
    /\ lastRead = NoRead
    /\ reads = 0

\* Spec and SpecBody leave the Request Adapter idle
InitReqIdle ==
    /\ trustProxy = FALSE
    /\ httpReqs = [r \in ReqIds |-> IdleRequest]
    /\ EmptyCaches

(***************************************************************************)
(* The exchange as a state machine.  A frame is an async call that waits   *)
(* for the frame above it; ret carries a completion down the stack.        *)
(***************************************************************************)
Frame(k, idx, st, left, fin) == [k |-> k, idx |-> idx, st |-> st, left |-> left, fin |-> fin]

NoRet == [k |-> "none", v |-> NoErr]

Completion(x) == IF x.err # NoErr THEN [k |-> "throw", v |-> x.err]
                 ELSE [k |-> "return", v |-> Undefined]

Top == stack[Len(stack)]

Pop == SubSeq(stack, 1, Len(stack) - 1)

NotCaught == [seen |-> FALSE, err |-> NoErr, ended |-> FALSE, res |-> NewResponse]

\* Spec leaves the Body Reader idle
InitBody ==
    /\ bodyReq = [content |-> "", typeValid |-> TRUE]
    /\ bodyCache = NoErr
    /\ rawStarts = 0
    /\ calls = <<>>

Init ==
    /\ impl \in {"loop", "chain"}
    /\ isDev \in BOOLEAN
    /\ options \in OptionSet(impl)
    /\ routes \in RouteLists
    /\ innerLen = Len(routes)
    /\ req \in [method : RequestMethods, pathname : Pathnames, params : {NoParams}]
    /\ res = NewResponse
    /\ stack = <<>>
    /\ ret = NoRet
    /\ outcome = [k |-> "idle", v |-> NoErr]
    /\ invoked = <<>>
    /\ nextCalls = 0
    /\ lastFin = NoFin
    /\ routeLog = <<>>
    /\ errLog = <<>>
    /\ caught = NotCaught
    /\ InitBody
    /\ InitReqIdle

\* the listener returned by serve() is called with the request
Serve ==
    /\ outcome.k = "idle"
    /\ outcome' = [k |-> "pending", v |-> NoErr]
    /\ stack' = <<Frame("serve", 0, "await", 0, NoFin),
                  IF impl = "loop" THEN Frame("router", 0, "call", 0, NoFin)
                  ELSE Frame("next", 1, "call", 0, NoFin)>>
    /\ UNCHANGED <<impl, isDev, options, routes, innerLen, req, res, ret, invoked, nextCalls,
                   lastFin, errLog, caught>>
    /\ routeLog' = <<>>
    /\ UNCHANGED bodyVars
    /\ UNCHANGED reqVars

\* loop generation: the handler built by router() runs its for-loop
Router ==
    /\ stack # <<>> /\ Top.k = "router" /\ ret = NoRet
    /\ LET found == routerLoop(1) IN
       IF found.idx = 0
       THEN LET x == send(res, 404, Str("Not Found")) IN
            /\ res' = x.res
            /\ ret' = Completion(x)
            /\ stack' = Pop
            /\ req' = req
       ELSE /\ req' = [req EXCEPT !.params = [set |-> TRUE, kv |-> found.params]]
            /\ stack' = Append(Pop, Frame("route", found.idx, "call", 0, NoFin))
            /\ UNCHANGED <<res, ret>>
    /\ UNCHANGED <<impl, isDev, options, routes, innerLen, outcome, invoked, nextCalls,
                   lastFin, errLog, caught>>
    /\ routeLog' = <<>>
    /\ UNCHANGED bodyVars
    /\ UNCHANGED reqVars

\* chain generation: next(req, res, idx) runs middleware[idx], a route that
\* passes on to next(idx + 1) or goes on to its validator or its handler, or
\* the 404 responder
Next_ ==
    /\ stack # <<>> /\ Top.k = "next" /\ ret = NoRet
    /\ IF current(Top.idx) = 0
       THEN LET x == notFoundMiddleware(res) IN
            /\ res' = x.res
            /\ ret' = Completion(x)
            /\ stack' = Pop
            /\ req' = req
       ELSE LET pathMatch == routeMatches(Top.idx) IN
            IF ~pathMatch.ok
            THEN /\ stack' = Append(Pop, Frame("next", Top.idx + 1, "call", 0, NoFin))
                 /\ UNCHANGED <<req, res, ret>>
            ELSE /\ req' = [req EXCEPT !.params = [set |-> TRUE, kv |-> pathMatch.params]]
                 /\ stack' = Append(Pop, Frame("route", Top.idx,
                                               IF routes[Top.idx].validator = "none"
                                               THEN "call" ELSE "validate", 0, NoFin))
                 /\ UNCHANGED <<res, ret>>
    /\ UNCHANGED <<impl, isDev, options, routes, innerLen, outcome, invoked, nextCalls,
                   lastFin, errLog, caught>>
    /\ routeLog' = <<>>
    /\ UNCHANGED bodyVars
    /\ UNCHANGED reqVars

\* a route calls its user handler, which runs up to its first `next` call
\* or to its end
HandlerCall ==
    /\ stack # <<>> /\ Top.k = "route" /\ Top.st = "call"
    /\ \E b \in Behaviours(impl, nextCalls) :
         LET x == preEffect(res, b.pre)
             waiting == Append(Pop, Frame("route", Top.idx, "await", 0, NoFin))
         IN
         /\ invoked' = Append(invoked, Top.idx)
         /\ lastFin' = b.fin
         /\ res' = x.res
         /\ IF x.err # NoErr
            THEN /\ ret' = [k |-> "throw", v |-> x.err]
                 /\ stack' = waiting
                 /\ nextCalls' = nextCalls
            ELSE IF b.pre = "pipe"
            THEN /\ ret' = NoRet
                 /\ stack' = Append(waiting, Frame("user", Top.idx, "timer", 0, b.fin))
                 /\ nextCalls' = nextCalls
            ELSE IF b.nexts = 0
            THEN /\ ret' = [k |-> b.fin.k, v |-> b.fin.v]
                 /\ stack' = waiting
                 /\ nextCalls' = nextCalls
            ELSE /\ ret' = NoRet
                 /\ stack' = waiting \o <<Frame("user", Top.idx, "await", b.nexts, b.fin),
                                          Frame("next", Top.idx + 1, "call", 0, NoFin)>>
                 /\ nextCalls' = nextCalls + 1
    /\ UNCHANGED <<impl, isDev, options, routes, innerLen, req, outcome, errLog, caught>>
    /\ routeLog' = <<>>
    /\ UNCHANGED bodyVars
    /\ UNCHANGED reqVars

\* the timer a user handler awaits fires: the handler goes on to its end
Timer ==
    /\ stack # <<>> /\ Top.k = "user" /\ Top.st = "timer" /\ ret = NoRet
    /\ stack' = Pop
    /\ ret' = [k |-> Top.fin.k, v |-> Top.fin.v]
    /\ UNCHANGED <<impl, isDev, options, routes, innerLen, req, res, outcome, invoked,
                   nextCalls, lastFin, errLog, caught>>
    /\ routeLog' = <<>>
    /\ UNCHANGED bodyVars
    /\ UNCHANGED reqVars

\* a user handler gets back the completion of the `next` it awaited
UserResume ==
    /\ stack # <<>> /\ Top.k = "user" /\ ret # NoRet
    /\ IF ret.k = "throw"
       THEN /\ stack' = Pop
            /\ UNCHANGED <<ret, nextCalls>>
       ELSE IF Top.left > 1 /\ nextCalls < MaxNext
       THEN /\ stack' = Pop \o <<Frame("user", Top.idx, "await", Top.left - 1, Top.fin),
                                  Frame("next", Top.idx + 1, "call", 0, NoFin)>>
            /\ ret' = NoRet
            /\ nextCalls' = nextCalls + 1
       ELSE /\ stack' = Pop
            /\ ret' = [k |-> Top.fin.k, v |-> Top.fin.v]
            /\ nextCalls' = nextCalls
    /\ UNCHANGED <<impl, isDev, options, routes, innerLen, req, res, outcome, invoked,
                   lastFin, errLog, caught>>
    /\ routeLog' = <<>>
    /\ UNCHANGED bodyVars
    /\ UNCHANGED reqVars

\* a route gets back the completion of its user handler
RouteRespond ==
    /\ stack # <<>> /\ Top.k = "route" /\ Top.st = "await" /\ ret # NoRet
    /\ stack' = Pop
    /\ IF ret.k = "throw"
       THEN /\ routeLog' = <<>>
            /\ UNCHANGED <<res, ret, lastFin>>
       ELSE LET x == IF impl = "loop" THEN routeRespond(res, ret.v)
                     ELSE routeRespondChain(res, ret.v) IN
            /\ res' = x.res
            /\ ret' = Completion(x)
            /\ routeLog' = <<[idx |-> Top.idx, value |-> ret.v,
                              before |-> res, after |-> x.res,
                              sends |-> x.sends]>>
            /\ lastFin' = NoFin
    /\ UNCHANGED <<impl, isDev, options, routes, innerLen, req, outcome, invoked, nextCalls,
                   errLog, caught>>
    /\ UNCHANGED bodyVars
    /\ UNCHANGED reqVars

\* the handler given to serve() returned
ServeReturn ==
    /\ stack # <<>> /\ Top.k = "serve" /\ ret.k = "return"
    /\ stack' = <<>>
    /\ ret' = NoRet
    /\ outcome' = [k |-> "resolved", v |-> NoErr]
    /\ UNCHANGED <<impl, isDev, options, routes, innerLen, req, res, invoked, nextCalls,
                   lastFin, errLog, caught>>
    /\ routeLog' = <<>>
    /\ UNCHANGED bodyVars
    /\ UNCHANGED reqVars

\* the handler given to serve() threw
ServeCatch ==
    /\ stack # <<>> /\ Top.k = "serve" /\ ret.k = "throw"
    /\ LET x == IF impl = "loop" THEN serveCatch(res, ret.v)
                ELSE serveCatchChain(res, ret.v) IN
       /\ res' = x.res
       /\ errLog' = errLog \o x.handlers
       /\ outcome' = IF x.err # NoErr THEN [k |-> "rejected", v |-> x.err]
                     ELSE [k |-> "resolved", v |-> NoErr]
    /\ caught' = [seen |-> TRUE, err |-> ret.v, ended |-> res.writableEnded, res |-> res]
    /\ stack' = <<>>
    /\ ret' = NoRet
    /\ UNCHANGED <<impl, isDev, options, routes, innerLen, req, invoked, nextCalls,
                   lastFin>>
    /\ routeLog' = <<>>
    /\ UNCHANGED bodyVars
    /\ UNCHANGED reqVars

\* a stream piped into the response has its data: it calls res.write.  When
\* the response is ended already the pipe is undone and nothing is written;
\* when res.write throws nothing is written and the pipe stays.
PipeData ==
    /\ \E i \in 1..Len(res.streams) :
         LET x == resWrite(res, res.streams[i].data) IN
         /\ ~res.streams[i].written
         /\ res' = IF res.writableEnded
                    THEN [res EXCEPT !.streams = SubSeq(@, 1, i - 1) \o SubSeq(@, i + 1, Len(@))]
                    ELSE [x.res EXCEPT !.streams[i].written = TRUE]
    /\ UNCHANGED <<impl, isDev, options, routes, innerLen, req, stack, ret, outcome, invoked,
                   nextCalls, lastFin, errLog, caught>>
    /\ routeLog' = <<>>
    /\ UNCHANGED bodyVars
    /\ UNCHANGED reqVars

\* a stream piped into the response has written its data and ends: it
\* calls res.end().  When the response was ended by something else, the
\* stream calls res.end() only if its end falls in the same turn of the
\* event loop: on a later turn the response has emitted 'finish', which
\* undoes the pipe (finished).
PipeEnd ==
    /\ \E i \in 1..Len(res.streams),
          finished \in (IF res.writableEnded THEN BOOLEAN ELSE {FALSE}) :
         /\ res.streams[i].written
         /\ res' = [(IF finished THEN res ELSE resEnd(res, "").res) EXCEPT
                       !.streams = SubSeq(@, 1, i - 1) \o SubSeq(@, i + 1, Len(@))]
    /\ UNCHANGED <<impl, isDev, options, routes, innerLen, req, stack, ret, outcome, invoked,
                   nextCalls, lastFin, errLog, caught>>
    /\ routeLog' = <<>>
    /\ UNCHANGED bodyVars
    /\ UNCHANGED reqVars

Next == Serve \/ Router \/ Next_ \/ HandlerCall \/ Timer \/ UserResume \/ RouteRespond
        \/ ServeReturn \/ ServeCatch \/ PipeData \/ PipeEnd

Spec == Init /\ [][Next]_vars

(***************************************************************************)
(* Claims about one exchange (Spec).                                       *)
(***************************************************************************)
\* the path template fits the pathname, stated segment by segment
TemplateFits(t, p) ==
    /\ Len(t) = Len(p)
    /\ \A i \in 1..Len(t) : t[i].param \/ t[i].s = p[i]

\* the routes whose method and path template match the request
Matching ==
    {i \in 1..Len(routes) : routes[i].method = req.method
                            /\ TemplateFits(routes[i].path, req.pathname)}

FirstMatching == CHOOSE i \in Matching : \A j \in Matching : i <= j

Done == outcome.k \in {"resolved", "rejected"}

\* C1 as claimed: in both routers at most one user handler is invoked per
\* request, and it is that of the first route in registration order whose
\* method and path template match.
C1_OnlyFirstMatchRuns ==
    /\ Len(invoked) <= 1
    /\ invoked # <<>> => Matching # {} /\ invoked[1] = FirstMatching

\* C1 amended: the first user handler invoked is that of the first matching
\* route and only matching routes' handlers ever run; the loop router invokes
\* at most one; in the chain router a later route's handler runs only when an
\* invoked handler called its `next`, once per such call at most, and it is
\* registered after the first one.
C1_FirstMatchRunsFirst ==
    /\ invoked # <<>> => Matching # {} /\ invoked[1] = FirstMatching
    /\ \A k \in 1..Len(invoked) : invoked[k] \in Matching
    /\ impl = "loop" => Len(invoked) <= 1
    /\ Len(invoked) <= 1 + nextCalls
    /\ \A k \in 2..Len(invoked) : invoked[k] > invoked[1]
    /\ Done /\ Matching # {} => invoked # <<>>

C1_Witness ==
    /\ impl = "chain" /\ Done
    /\ Matching = {1, 2}
    /\ invoked = <<1, 2>>
    /\ nextCalls = 1

\* C2: over the whole exchange res.end is called at most once.
C2_EndedAtMostOnce == res.endCalls <= 1

\* C3: once the listener has finished (the handler returned or threw), the
\* response is finalized, or a piped stream is about to finalize it.
C3_FinishedMeansFinalized == Done => res.writableEnded \/ res.piped

\* C6: when no route matches, no user handler is invoked and the response is
\* finalized exactly once, with status 404 and body "Not Found".
C6_NoMatchIs404 ==
    Matching = {} =>
        /\ invoked = <<>>
        /\ res.endCalls <= 1
        /\ Done => /\ outcome.k = "resolved"
                   /\ res.writableEnded
                   /\ res.endCalls = 1
                   /\ res.statusCode = 404
                   /\ res.body = "Not Found"

C6_Witness ==
    /\ impl = "chain" /\ Done
    /\ Len(routes) = 2
    /\ routes[1].method = req.method
    /\ Matching = {}
    /\ res.statusCode = 404

\* C7: a route maps its handler's result: null -> one send with 204 and an
\* empty body, Content-Type untouched; undefined -> no send, no end, the
\* response unchanged; any other non-error value -> one send with the
\* status code then on the response and that value as body.
C7_ResultMapping ==
    \A n \in 1..Len(routeLog) :
        LET e == routeLog[n] IN
        /\ e.value = Null =>
              /\ e.sends = <<[code |-> 204, body |-> Null]>>
              /\ e.after.statusCode = 204
              /\ e.after.endCalls = e.before.endCalls + 1
              /\ e.after.headers["Content-Type"] = e.before.headers["Content-Type"]
              /\ e.after.body = e.before.body
        /\ e.value = Undefined =>
              /\ e.sends = <<>>
              /\ e.after = e.before
        /\ e.value \notin {Null, Undefined} /\ ~isError(e.value) =>
              /\ e.sends = <<[code |-> e.before.statusCode, body |-> e.value]>>
              /\ e.after.statusCode = e.before.statusCode
              /\ e.value.t = "string" /\ ~e.before.headersSent =>
                    /\ e.after.body = e.value.v
                    /\ e.after.endCalls = e.before.endCalls + 1

C7_Witness ==
    \E n \in 1..Len(routeLog) :
        /\ routeLog[n].value = Str("Hello Ada")
        /\ routeLog[n].before.statusCode = 201
        /\ routeLog[n].after.statusCode = 201
        /\ routeLog[n].after.body = "Hello Ada"

\* serve() caught an HTTP error before the response was finalized, and no
\* custom error handler is configured
HttpErrorCaught ==
    /\ caught.seen /\ ~caught.ended
    /\ caught.err.t = "HttpError"
    /\ options.errorHandler = "unset" /\ ~options.onError

\* C8: an HTTP error thrown before the response is finalized is answered
\* with one finalization, the error's status code and exactly its message
\* as body, in both generations.
C8_HttpErrorSentAsMessage ==
    HttpErrorCaught =>
        /\ res.endCalls = 1
        /\ res.statusCode = caught.err.code
        /\ res.body = caught.err.v

\* serve() caught a redirect thrown by the handler before the response was
\* finalized
RedirectCaught ==
    /\ caught.seen /\ ~caught.ended
    /\ caught.err.t = "RedirectError"
    /\ lastFin.k = "throw" /\ lastFin.v = caught.err

\* C9: a thrown redirect(location, statusCode) sets the status (303 when
\* omitted) and the Location header, ends the response with an empty body,
\* and no error handler is invoked.
C9_Redirect ==
    RedirectCaught =>
        /\ res.statusCode = (IF lastFin.arg = 0 THEN 303 ELSE lastFin.arg)
        /\ res.headers["Location"] = Str(caught.err.v)
        /\ res.writableEnded /\ res.endCalls = 1
        /\ res.body = ""
        /\ errLog = <<>>
        /\ outcome.k = "resolved"

\* C15: send() leaves a Content-Type that the caller set before the call as
\* it is, whatever its value and whatever the body; when none is set it
\* writes application/octet-stream for a Buffer or a stream and
\* application/json; charset=utf-8 for an object or a number, and writes
\* none for null or a string (an Error is rethrown by the loop generation and
\* is an object like any other to the chain generation).
C15_ContentTypeKept ==
    \A n \in 1..Len(routeLog) :
        LET e == routeLog[n]
            was == e.before.headers["Content-Type"]
            now == e.after.headers["Content-Type"]
        IN
        e.sends # <<>> =>
            LET body == e.sends[1].body IN
            /\ was # Undefined => now = was
            /\ was = Undefined /\ ~e.before.headersSent =>
                  now = (IF body.t \in {"buffer", "stream"}
                         THEN Str("application/octet-stream")
                         ELSE IF body.t \in {"object", "number"}
                                 \/ (impl = "chain" /\ isError(body))
                         THEN Str("application/json; charset=utf-8")
                         ELSE Undefined)
            /\ was = Undefined /\ e.before.headersSent => now = Undefined

\* C10: an error thrown after the response was finalized gets no error
\* handling: no error handler is invoked, nothing is written, and the same
\* error is rethrown to the caller of the listener.
C10_NoHandlingAfterEnd ==
    caught.seen /\ caught.ended =>
        /\ errLog = <<>>
        /\ res = caught.res
        /\ outcome = [k |-> "rejected", v |-> caught.err]

\* the route has just dispatched an error that its handler returned
ErrorReturned(log) == log # <<>> /\ isError(log[1].value)

\* C21: send() with an Error body rethrows that error and writes nothing: a
\* route whose handler returns an error leaves the response as it is and
\* throws the error, as if the handler had thrown it; serve() then answers a
\* returned HttpError, when the response is not finalized and no custom error
\* handler is configured, with one finalization carrying the error's status
\* code and message.
C21_ReturnedErrorIsThrown ==
    [][/\ ErrorReturned(routeLog') =>
            /\ res' = res
            /\ ret' = [k |-> "throw", v |-> routeLog'[1].value]
       /\ (/\ ErrorReturned(routeLog) /\ routeLog[1].value.t = "HttpError"
           /\ ~caught.seen /\ caught'.seen
           /\ ~res.writableEnded
           /\ options.errorHandler = "unset" /\ ~options.onError) =>
            /\ caught'.err = routeLog[1].value
            /\ res'.endCalls = res.endCalls + 1
            /\ res'.writableEnded
            /\ res'.statusCode = routeLog[1].value.code
            /\ res'.body = routeLog[1].value.v]_vars

\* serve() caught an error without a status code before the response was
\* finalized, and no custom error handler is configured
PlainErrorCaught ==
    /\ caught.seen /\ ~caught.ended
    /\ caught.err.t = "Error"
    /\ options.errorHandler = "unset" /\ ~options.onError

\* the response body is the stack of the error that serve() caught
StackInBody == caught.seen /\ res.body = stack_(caught.err)

\* C22: an error without a status code is answered with one
\* finalization, status 500 and, when IS_DEV is false, the error's raw
\* message as body; a stack is in a response body only when IS_DEV is true.
C22_PlainErrorIs500RawMessage ==
    /\ PlainErrorCaught =>
          /\ res.endCalls = 1 /\ res.writableEnded
          /\ res.statusCode = 500
          /\ ~isDev => res.body = caught.err.v
    /\ StackInBody => isDev

(***************************************************************************)
(* Body Reader: buffer(), text(), json() on one request.  The two          *)
(* generations have the same code.                                         *)
(***************************************************************************)
\* request bodies: empty, not JSON, JSON null, a JSON object, and a JSON
\* object longer than the 10-byte limit
Contents == {"", "abc", "null", "{\"a\":1}", "{\"a\":1234567}"}

\* RequestBodyOptions.limit as given, '1mb' being the default
Limits == {"10b", "1mb"}

\* bytes.parse(limit), as raw-body does
limitBytes(limit) == IF limit = "10b" THEN 10 ELSE 1024 * 1024

\* what contentType.parse throws on a header it cannot parse
InvalidMediaType == Val("TypeError", 0, "invalid media type")

\* JSON.parse on the request bodies; the one that is neither JSON nor empty
\* starts with an a
JSONparse(text) ==
    IF text = "null" THEN [k |-> "return", v |-> Null]
    ELSE IF text = "{\"a\":1}" THEN [k |-> "return", v |-> Obj("a", 1)]
    ELSE IF text = "{\"a\":1234567}" THEN [k |-> "return", v |-> Obj("a", 1234567)]
    ELSE IF text = "42" THEN [k |-> "return", v |-> Num(42)]
    ELSE IF text = "" THEN [k |-> "throw", v |-> Val("SyntaxError", 0, "Unexpected end of JSON input")]
    ELSE [k |-> "throw",
          v |-> Val("SyntaxError", 0, "Unexpected token 'a', \"" \o text
                                      \o "\" is not valid JSON")]

\* body.toString()
toString(body) == Str(body.v)

\* what text() and json() derive from the Buffer that buffer() gave;
\* buffer() gives the Buffer itself
fromBuffer(fn, body) ==
    IF fn = "buffer" THEN [k |-> "return", v |-> body]
    ELSE IF fn = "text" THEN [k |-> "return", v |-> toString(body)]
    ELSE LET parsed == JSONparse(toString(body).v) IN
         IF parsed.k = "throw" THEN [k |-> "throw", v |-> httpError(400, "Invalid JSON")]
         ELSE parsed

\* the catch block of buffer()
readError(limit, type) ==
    IF type = "entity.too.large"
    THEN httpError(413, "Body exceeded " \o limit \o " limit")
    ELSE httpError(400, "Invalid body")

\* `if (existingBody)`: a Buffer is truthy whatever its length
existingBody(cached) == cached # NoErr

\* buffer() up to its await: the Content-Type parse, then the cache lookup.
\* go says whether getRawBody is started.
bufferStart(encodingGiven, cached) ==
    IF ~encodingGiven /\ ~bodyReq.typeValid
    THEN [go |-> FALSE, done |-> [k |-> "throw", v |-> InvalidMediaType]]
    ELSE IF existingBody(cached)
    THEN [go |-> FALSE, done |-> [k |-> "return", v |-> cached]]
    ELSE [go |-> TRUE, done |-> NoRet]

CallRecord(fn, encodingGiven, limit, st, read, afterSuccess, result) ==
    [fn |-> fn, encodingGiven |-> encodingGiven, limit |-> limit, st |-> st,
     read |-> read, afterSuccess |-> afterSuccess, result |-> result]

Succeeded(c) == c.st = "done" /\ c.result.k = "return"

\* buffer() has settled as `done`: a call of buffer() is over; a call of
\* text() or json() holds the outcome until its .then() callbacks run, in a
\* later job
settled(c, done) ==
    IF c.fn = "buffer" THEN [c EXCEPT !.st = "done", !.result = done]
    ELSE [c EXCEPT !.st = "then", !.result = done]

InitLifeIdle ==
    /\ impl = "loop"
    /\ isDev = FALSE
    /\ options = [errorHandler |-> "unset", onError |-> FALSE]
    /\ routes = <<>>
    /\ innerLen = Len(routes)
    /\ req = [method |-> "POST", pathname |-> <<"unknown">>, params |-> NoParams]
    /\ res = NewResponse
    /\ stack = <<>>
    /\ ret = NoRet
    /\ outcome = [k |-> "idle", v |-> NoErr]
    /\ invoked = <<>>
    /\ nextCalls = 0
    /\ lastFin = NoFin
    /\ routeLog = <<>>
    /\ errLog = <<>>
    /\ caught = NotCaught

InitBodySpec ==
    /\ InitLifeIdle
    /\ bodyReq \in [content : Contents, typeValid : BOOLEAN]
    /\ bodyCache = NoErr
    /\ rawStarts = 0
    /\ calls = <<>>
    /\ InitReqIdle

\* user code calls buffer(req, opts), text(req, opts) or json(req, opts); the
\* call runs until buffer() settles, or to the await of getRawBody
CallStart ==
    /\ Len(calls) < MaxCalls
    /\ \E fn \in {"buffer", "text", "json"}, encodingGiven \in BOOLEAN, limit \in Limits :
         LET b == bufferStart(encodingGiven, bodyCache)
             after == \E i \in 1..Len(calls) : Succeeded(calls[i])
         IN
         IF b.go
         THEN /\ rawStarts' = rawStarts + 1
              /\ calls' = Append(calls, CallRecord(fn, encodingGiven, limit, "reading",
                                                   TRUE, after, NoRet))
         ELSE /\ rawStarts' = rawStarts
              /\ calls' = Append(calls, settled(CallRecord(fn, encodingGiven, limit, "reading",
                                                           FALSE, after, NoRet), b.done))
    /\ UNCHANGED <<bodyReq, bodyCache>>
    /\ UNCHANGED lifeVars
    /\ UNCHANGED reqVars

\* getRawBody delivers the whole body to a waiting call: buffer() stores
\* it under the request and returns it
ReadOk(i) ==
    /\ calls[i].st = "reading"
    /\ Len(bodyReq.content) <= limitBytes(calls[i].limit)
    /\ LET body == Buf(bodyReq.content) IN
       /\ bodyCache' = body
       /\ calls' = [calls EXCEPT ![i] = settled(@, [k |-> "return", v |-> body])]
    /\ UNCHANGED <<bodyReq, rawStarts>>
    /\ UNCHANGED lifeVars
    /\ UNCHANGED reqVars

\* getRawBody fails: the body is over the limit, or the stream broke or was
\* no longer readable
ReadFail(i) ==
    /\ calls[i].st = "reading"
    /\ LET type == IF Len(bodyReq.content) > limitBytes(calls[i].limit)
                   THEN "entity.too.large" ELSE "request.aborted" IN
       calls' = [calls EXCEPT ![i] = settled(@, [k |-> "throw",
                                                 v |-> readError(calls[i].limit, type)])]
    /\ UNCHANGED <<bodyReq, bodyCache, rawStarts>>
    /\ UNCHANGED lifeVars
    /\ UNCHANGED reqVars

\* the .then() callbacks of text() and json() run on what buffer() gave; a
\* rejection of buffer() passes through them
ThenStep(i) ==
    /\ calls[i].st = "then"
    /\ calls' = [calls EXCEPT ![i].st = "done",
                              ![i].result = IF @.k = "throw" THEN @
                                            ELSE fromBuffer(calls[i].fn, @.v)]
    /\ UNCHANGED <<bodyReq, bodyCache, rawStarts>>
    /\ UNCHANGED lifeVars
    /\ UNCHANGED reqVars

NextBody ==
    \/ CallStart
    \/ \E i \in 1..Len(calls) : ReadOk(i)
    \/ \E i \in 1..Len(calls) : ReadFail(i)
    \/ \E i \in 1..Len(calls) : ThenStep(i)

SpecBody == InitBodySpec /\ [][NextBody]_vars

(***************************************************************************)
(* Claims about the Body Reader (SpecBody).                                *)
(***************************************************************************)
\* C4: once a call of buffer()/text()/json() has succeeded, every later call
\* of any of the three does not start getRawBody and ends with what its
\* function derives from the body read first.
C4_LaterCallsRepeatFirstRead ==
    \A j \in 1..Len(calls) :
        calls[j].afterSuccess =>
            /\ ~calls[j].read
            /\ calls[j].st # "reading"
            /\ calls[j].st = "done" =>
                  calls[j].result = fromBuffer(calls[j].fn, Buf(bodyReq.content))

\* C5: getRawBody is started at most once per request.
C5_StreamReadAtMostOnce == rawStarts <= 1

\* C20: every failure of buffer()/text()/json() is an HTTP error: 413 naming
\* the limit when the body exceeds it, 400 'Invalid body' for any other
\* failure to read, an unparseable Content-Type included, 400 'Invalid JSON'
\* from json() on a body that is not JSON; the body cache holds nothing but
\* a body that was read.
C20_FailuresAre4xx ==
    /\ \A j \in 1..Len(calls) :
          calls[j].st = "done" /\ calls[j].result.k = "throw" =>
              LET e == calls[j].result.v IN
              /\ e.t = "HttpError"
              /\ \/ /\ e.code = 413
                    /\ e.v = "Body exceeded " \o calls[j].limit \o " limit"
                    /\ Len(bodyReq.content) > limitBytes(calls[j].limit)
                 \/ e.code = 400 /\ e.v = "Invalid body"
                 \/ e.code = 400 /\ e.v = "Invalid JSON" /\ calls[j].fn = "json"
    /\ bodyCache # NoErr => bodyCache = Buf(bodyReq.content)

(***************************************************************************)
(* Two requests in flight through the same serve(router(...)): reads of    *)
(* their accessors, of their bodies, and the router's dispatch.            *)
(***************************************************************************)
\* GET /hello/Ada?x=1 with body "abc", and GET /hello/world?x=2 with body "null"
NewRequest(r, encrypted, proto, host) ==
    [encrypted |-> encrypted, proto |-> proto, host |-> host,
     url |-> IF r = "a" THEN [path |-> "/hello/Ada", x |-> 1]
             ELSE [path |-> "/hello/world", x |-> 2],
     pathname |-> IF r = "a" THEN <<"hello", "Ada">> ELSE <<"hello", "world">>,
     content |-> IF r = "a" THEN "abc" ELSE "null",
     stream |-> "unread", params |-> [set |-> FALSE, kv |-> {}]]

\* router(route('GET', '/hello/:name', handler))
ReqRoutes == <<[method |-> "GET", path |-> <<Lit("hello"), Par("name")>>, validator |-> "none"]>>

\* x-forwarded-proto of the second request: absent, or "ws,https"
OtherProtoHeaders == {NoHeader, Header(<<"w", "s", ",", "h", "t", "t", "p", "s">>)}

LifeIdle(g) ==
    /\ impl = g
    /\ isDev = FALSE
    /\ options = [errorHandler |-> "unset", onError |-> FALSE]
    /\ routes = ReqRoutes
    /\ innerLen = Len(routes)
    /\ req = [method |-> "GET", pathname |-> <<"unknown">>, params |-> NoParams]
    /\ res = NewResponse
    /\ stack = <<>>
    /\ ret = NoRet
    /\ outcome = [k |-> "idle", v |-> NoErr]
    /\ invoked = <<>>
    /\ nextCalls = 0
    /\ lastFin = NoFin
    /\ routeLog = <<>>
    /\ errLog = <<>>
    /\ caught = NotCaught

InitReq ==
    /\ \E g \in {"loop", "chain"} : LifeIdle(g)
    /\ InitBody
    /\ trustProxy \in BOOLEAN
    /\ \E ea \in BOOLEAN, pa \in ProtoHeaders, ha \in Hosts, pb \in OtherProtoHeaders :
         httpReqs = [r \in ReqIds |-> IF r = "a" THEN NewRequest(r, ea, pa, ha)
                                      ELSE NewRequest(r, TRUE, pb, "example.com")]
    /\ EmptyCaches

Accessors == {"protocol", "parsedURL", "query"}

\* user code reads req.protocol, req.parsedURL (req.url) or req.query
ReadAccessor(r, name) ==
    /\ reads < MaxReads
    /\ LET x == readGetter(Store, r, name) IN
       /\ cache' = x.st.cache
       /\ errorCache' = x.st.errorCache
       /\ fnCalls' = x.st.fnCalls
       /\ lastRead' = [r |-> r, name |-> name, done |-> x.done]
       /\ firstRead' = IF firstRead[name][r].k = "none"
                       THEN [firstRead EXCEPT ![name][r] = x.done]
                       ELSE firstRead
    /\ reads' = reads + 1
    /\ UNCHANGED <<trustProxy, httpReqs, requestBodyMap>>
    /\ UNCHANGED lifeVars
    /\ UNCHANGED bodyVars

\* user code calls buffer(req): it ends at once with the cached body, or
\* starts getRawBody and waits
BufferStart(r) ==
    /\ reads < MaxReads
    /\ httpReqs[r].stream # "reading"
    /\ LET b == bufferStart(FALSE, IF weakHas(requestBodyMap, r)
                                   THEN weakGet(requestBodyMap, r) ELSE NoErr) IN
       IF b.go
       THEN /\ httpReqs' = [httpReqs EXCEPT ![r].stream = "reading"]
            /\ lastRead' = NoRead
       ELSE /\ httpReqs' = httpReqs
            /\ lastRead' = [r |-> r, name |-> "body", done |-> b.done]
    /\ reads' = reads + 1
    /\ UNCHANGED <<trustProxy, cache, errorCache, requestBodyMap, fnCalls, firstRead>>
    /\ UNCHANGED lifeVars
    /\ UNCHANGED bodyVars

\* getRawBody(req) delivers: buffer() stores the body under req and returns it
BufferDone(r) ==
    /\ httpReqs[r].stream = "reading"
    /\ LET body == Buf(httpReqs[r].content) IN
       /\ requestBodyMap' = weakSet(requestBodyMap, r, body)
       /\ lastRead' = [r |-> r, name |-> "body", done |-> [k |-> "return", v |-> body]]
    /\ httpReqs' = [httpReqs EXCEPT ![r].stream = "consumed"]
    /\ UNCHANGED <<trustProxy, cache, errorCache, fnCalls, firstRead, reads>>
    /\ UNCHANGED lifeVars
    /\ UNCHANGED bodyVars

\* the router reads the request's pathname from req.parsedURL (req.url),
\* matches it against the route and sets req.params
Dispatch(r) ==
    /\ reads < MaxReads
    /\ ~httpReqs[r].params.set
    /\ LET x == readURL(Store, r)
           match == matchPath(routes[1].path, httpReqs[r].pathname)
       IN
       /\ cache' = x.st.cache
       /\ errorCache' = x.st.errorCache
       /\ fnCalls' = x.st.fnCalls
       /\ httpReqs' = IF x.done.k = "return" /\ match.ok
                      THEN [httpReqs EXCEPT ![r].params = [set |-> TRUE, kv |-> match.params]]
                      ELSE httpReqs
       /\ lastRead' = [r |-> r, name |-> "parsedURL", done |-> x.done]
       /\ firstRead' = IF firstRead["parsedURL"][r].k = "none"
                       THEN [firstRead EXCEPT !["parsedURL"][r] = x.done]
                       ELSE firstRead
    /\ reads' = reads + 1
    /\ UNCHANGED <<trustProxy, requestBodyMap>>
    /\ UNCHANGED lifeVars
    /\ UNCHANGED bodyVars

NextReq ==
    \/ \E r \in ReqIds, name \in Accessors : ReadAccessor(r, name)
    \/ \E r \in ReqIds : BufferStart(r)
    \/ \E r \in ReqIds : BufferDone(r)
    \/ \E r \in ReqIds : Dispatch(r)

SpecReq == InitReq /\ [][NextReq]_vars

(***************************************************************************)
(* A user function wrapped by fromRequest(), called on the two requests.   *)
(* Whenever the function runs it ends as the environment chooses.          *)
(***************************************************************************)
UserOutcomes ==
    {[k |-> "return", v |-> v] : v \in {Undefined, Null, Num(0), Str(""), Obj("v", 1)}}
    \cup {[k |-> "throw", v |-> PlainError(m)] : m \in {"e1", "e2"}}

InitFrom ==
    /\ LifeIdle("loop")
    /\ InitBody
    /\ trustProxy = FALSE
    /\ httpReqs = [r \in ReqIds |-> NewRequest(r, FALSE, NoHeader, "example.com")]
    /\ EmptyCaches

\* user code calls the wrapped function with the request
CallWrapped(r, done) ==
    /\ reads < MaxReads
    /\ LET x == readCustom(Store, r, done) IN
       /\ cache' = x.st.cache
       /\ errorCache' = x.st.errorCache
       /\ fnCalls' = x.st.fnCalls
       /\ lastRead' = [r |-> r, name |-> "custom", done |-> x.done]
       /\ firstRead' = IF firstRead["custom"][r].k = "none"
                       THEN [firstRead EXCEPT !["custom"][r] = x.done]
                       ELSE firstRead
    /\ reads' = reads + 1
    /\ UNCHANGED <<trustProxy, httpReqs, requestBodyMap>>
    /\ UNCHANGED lifeVars
    /\ UNCHANGED bodyVars

NextFrom == \E r \in ReqIds, done \in UserOutcomes : CallWrapped(r, done)

SpecFrom == InitFrom /\ [][NextFrom]_vars

(***************************************************************************)
(* Claims about the Request Adapter (SpecReq, SpecFrom).                   *)
(***************************************************************************)
\* C11: for each request, the computation behind each derived accessor
\* (protocol, parsedURL/url, query) runs at most once, and exactly once when
\* the accessor was read, whatever the reads and their order, nested reads
\* and reads after a computation that threw included.
C11_ComputedOnce ==
    \A g \in Accessors, r \in ReqIds :
        /\ fnCalls[g][r] <= 1
        /\ firstRead[g][r].k # "none" => fnCalls[g][r] = 1

\* C12: a function wrapped by fromRequest runs at most once per request;
\* every call for a request ends as its first call for that request ended:
\* it returns the same value (falsy values included) or throws the same error.
C12_BothOutcomesCached ==
    /\ \A r \in ReqIds :
          /\ fnCalls["custom"][r] <= 1
          /\ firstRead["custom"][r].k # "none" => fnCalls["custom"][r] = 1
    /\ lastRead.name = "custom" => lastRead.done = firstRead["custom"][lastRead.r]

C12_Witness ==
    /\ reads = 3
    /\ fnCalls["custom"] = [r \in ReqIds |-> IF r = "a" THEN 1 ELSE 0]
    /\ lastRead = [r |-> "a", name |-> "custom", done |-> [k |-> "return", v |-> Num(0)]]

\* chars[a..b] is the text of chars before its first comma (all of chars
\* when it has none) without the whitespace around it
IsFirstToken(chars, a, b) ==
    \E n \in 0..Len(chars) :
        /\ n = Len(chars) \/ chars[n + 1] = ","
        /\ \A i \in 1..n : chars[i] # ","
        /\ b <= n /\ a <= b + 1
        /\ \A i \in (1..(a - 1)) \cup ((b + 1)..n) : chars[i] \in Whitespace
        /\ a <= b => chars[a] \notin Whitespace /\ chars[b] \notin Whitespace

\* C13: without trustProxy the protocol is https iff the socket is
\* encrypted, else http, whatever x-forwarded-proto says; with trustProxy and
\* the header present it is the header's text before the first comma,
\* trimmed; with trustProxy and no header it is the socket-level value.
C13_ProtocolResolution ==
    lastRead.name = "protocol" =>
        LET q == httpReqs[lastRead.r]
            socket == IF q.encrypted THEN "https" ELSE "http"
        IN
        /\ lastRead.done.k = "return"
        /\ lastRead.done.v.t = "string"
        /\ ~trustProxy => lastRead.done.v.v = socket
        /\ trustProxy /\ ~q.proto.present => lastRead.done.v.v = socket
        /\ trustProxy /\ q.proto.present =>
              \E a \in 1..(Len(q.proto.chars) + 1), b \in 0..Len(q.proto.chars) :
                  /\ IsFirstToken(q.proto.chars, a, b)
                  /\ lastRead.done.v.v = join(SubSeq(q.proto.chars, a, b))

C13_Witness ==
    /\ trustProxy
    /\ lastRead.r = "a" /\ lastRead.name = "protocol"
    /\ ~httpReqs["a"].encrypted
    /\ httpReqs["a"].proto = Header(<<"h", "t", "t", "p", "s", ",", " ", "h", "t", "t", "p">>)
    /\ lastRead.done = [k |-> "return", v |-> Str("https")]

\* C14: the protocol a request resolves to is 'http' or 'https'.
C14_ProtocolIsHttpOrHttps ==
    /\ lastRead.name = "protocol" /\ lastRead.done.k = "return"
          => lastRead.done.v \in {Str("http"), Str("https")}
    /\ \A r \in ReqIds : weakHas(cache["protocol"], r)
          => weakGet(cache["protocol"], r) \in {Str("http"), Str("https")}

\* what an accessor of request r yields, from that request alone
Derived(g, r) ==
    LET q == httpReqs[r]
        protocol == protocolGetter(r).v
        base == IF impl = "loop" THEN protocol ELSE "http"
        bad == base = "" \/ q.host \notin {"example.com"}
        href == base \o "://" \o q.host \o q.url.path
    IN
    IF g = "protocol" THEN [k |-> "return", v |-> Str(protocol)]
    ELSE IF bad
    THEN [k |-> "throw",
          v |-> [t |-> "TypeError", code |-> 0, v |-> "Invalid URL",
                 input |-> q.url.path \o "?x=" \o NumToString(q.url.x),
                 base |-> base \o "://" \o q.host]]
    ELSE IF g = "parsedURL" THEN [k |-> "return", v |-> Val("URL", q.url.x, href)]
    ELSE [k |-> "return", v |-> Val("query", q.url.x, "x")]

\* C17: whatever the interleaving of the two requests, what is cached for a
\* request and what a read through it yields (body, protocol, URL, query,
\* params) is derived from that request, never from the other; the route list
\* stays as registered.
C17_PerRequestState ==
    /\ \A r \in ReqIds, g \in Accessors :
          /\ weakHas(cache[g], r)
                => Derived(g, r) = [k |-> "return", v |-> weakGet(cache[g], r)]
          /\ weakHas(errorCache[g], r)
                => Derived(g, r) = [k |-> "throw", v |-> weakGet(errorCache[g], r)]
    /\ \A r \in ReqIds :
          /\ weakHas(requestBodyMap, r)
                => weakGet(requestBodyMap, r) = Buf(httpReqs[r].content)
          /\ httpReqs[r].params.set
                => httpReqs[r].params.kv = {<<"name", httpReqs[r].pathname[2]>>}
    /\ lastRead.name \in Accessors => lastRead.done = Derived(lastRead.name, lastRead.r)
    /\ lastRead.name = "body"
          => lastRead.done = [k |-> "return", v |-> Buf(httpReqs[lastRead.r].content)]
    /\ routes = ReqRoutes

C17_Witness ==
    /\ reads = 3
    /\ weakHas(requestBodyMap, "a")
    /\ httpReqs["a"].stream = "consumed" /\ httpReqs["b"].stream = "consumed"
    /\ lastRead = [r |-> "b", name |-> "body",
                   done |-> [k |-> "return", v |-> Buf("null")]]
    /\ httpReqs["a"].content # httpReqs["b"].content

(***************************************************************************)
(* A route given to serve() as its handler, without a router.              *)
(***************************************************************************)
InitDirect ==
    /\ Init
    /\ Len(routes) = 1

\* the listener of serve(route(...)) is called with the request: it calls
\* the routeHandler itself.  In the chain generation the continuation it
\* hands over is notFound(res), which sends what notFoundMiddleware sends.
ServeDirect ==
    /\ outcome.k = "idle"
    /\ outcome' = [k |-> "pending", v |-> NoErr]
    /\ stack' = <<Frame("serve", 0, "await", 0, NoFin),
                  IF impl = "loop" THEN Frame("route", 1, "call", 0, NoFin)
                  ELSE Frame("next", 1, "call", 0, NoFin)>>
    /\ UNCHANGED <<impl, isDev, options, routes, innerLen, req, res, ret, invoked, nextCalls,
                   lastFin, errLog, caught>>
    /\ routeLog' = <<>>
    /\ UNCHANGED bodyVars
    /\ UNCHANGED reqVars

NextDirect == ServeDirect \/ Next_ \/ HandlerCall \/ Timer \/ UserResume \/ RouteRespond
              \/ ServeReturn \/ ServeCatch \/ PipeData \/ PipeEnd

SpecDirect == InitDirect /\ [][NextDirect]_vars

\* the parameters a template takes from a pathname it fits
DeclaredParams(t, p) == {<<t[i].s, p[i]>> : i \in {j \in 1..Len(t) : t[j].param}}

\* C16: whenever the user handler of a route is invoked, the request's
\* method is the route's, its pathname matches the route's path, and
\* req.params holds the parameters taken from the pathname; this also when
\* the route is itself the handler given to serve().
C16_HandlerOnlyOnMatch ==
    [][invoked' # invoked =>
          LET i == invoked'[Len(invoked')] IN
          /\ i \in Matching
          /\ req.params = [set |-> TRUE,
                           kv |-> DeclaredParams(routes[i].path, req.pathname)]]_vars

(***************************************************************************)
(* Routes with a body validator (chain generation).                        *)
(***************************************************************************)
\* validators: one that accepts every object, one that rejects every object
Validators == {"accept", "reject"}

\* request bodies: JSON null, a JSON number, a JSON object
ValidContents == {"null", "42", "{\"a\":1}"}

\* routes on "/hello/:name", with and without a validator
RouteSetValid == [method : Methods, path : {<<Lit("hello"), Par("name")>>},
                  validator : {"none"} \cup Validators]

\* POST /hello/Ada, POST /unknown
ValidRequests == [method : {"POST"}, pathname : {<<"hello", "Ada">>, <<"unknown">>},
                  params : {NoParams}]

\* for the chain generation: lists with at least one validated route
ValidRouteLists(g) ==
    IF g = "loop" THEN RouteLists
    ELSE {l \in UNION {[1..n -> RouteSetValid] : n \in 1..MaxRoutes} :
             /\ \A i, j \in 1..Len(l) : l[i] = l[j] => i = j
             /\ \E i \in 1..Len(l) : l[i].validator # "none"}

\* typeof body === 'object' && body !== null && validator(body)
validates(validator, body) == body.t = "object" /\ validator = "accept"

InitValid ==
    /\ impl \in {"loop", "chain"}
    /\ isDev \in BOOLEAN
    /\ options = [errorHandler |-> "unset", onError |-> FALSE]
    /\ routes \in ValidRouteLists(impl)
    /\ innerLen = Len(routes)
    /\ req \in ValidRequests
    /\ res = NewResponse
    /\ stack = <<>>
    /\ ret = NoRet
    /\ outcome = [k |-> "idle", v |-> NoErr]
    /\ invoked = <<>>
    /\ nextCalls = 0
    /\ lastFin = NoFin
    /\ routeLog = <<>>
    /\ errLog = <<>>
    /\ caught = NotCaught
    /\ bodyReq \in [content : IF impl = "loop" THEN {""} ELSE ValidContents,
                     typeValid : {TRUE}]
    /\ bodyCache = NoErr
    /\ rawStarts = 0
    /\ calls = <<>>
    /\ InitReqIdle

\* a matching route with a validator calls json(req): buffer() finds the
\* cached body, or starts getRawBody; the route waits
ValidateStart ==
    /\ stack # <<>> /\ Top.k = "route" /\ Top.st = "validate" /\ ret = NoRet
    /\ LET b == bufferStart(FALSE, bodyCache) IN
       /\ rawStarts' = IF b.go THEN rawStarts + 1 ELSE rawStarts
       /\ stack' = Append(Pop, Frame("route", Top.idx, IF b.go THEN "reading" ELSE "cached",
                                     0, NoFin))
    /\ routeLog' = <<>>
    /\ UNCHANGED <<impl, isDev, options, routes, innerLen, req, res, ret, outcome, invoked,
                   nextCalls, lastFin, errLog, caught, bodyReq, bodyCache, calls>>
    /\ UNCHANGED reqVars

\* json(req) settles and the route tests the body: it throws what json()
\* throws, or answers 422 through sendError, or goes on to its handler.
\* getRawBody may fail (the stream breaks).
Validate ==
    /\ stack # <<>> /\ Top.k = "route" /\ Top.st \in {"reading", "cached"} /\ ret = NoRet
    /\ \E delivered \in (IF Top.st = "reading" THEN BOOLEAN ELSE {TRUE}) :
         LET go == Top.st = "reading"
             raw == IF ~go THEN bufferStart(FALSE, bodyCache).done
                    ELSE IF delivered THEN [k |-> "return", v |-> Buf(bodyReq.content)]
                    ELSE [k |-> "throw", v |-> readError("1mb", "request.aborted")]
             body == IF raw.k = "throw" THEN raw ELSE fromBuffer("json", raw.v)
             error == createError(422, "Request body failed validation")
             x == sendErrorChain(res, error)
         IN
         /\ bodyCache' = IF go /\ delivered THEN raw.v ELSE bodyCache
         /\ IF body.k = "throw"
            THEN /\ ret' = body
                 /\ stack' = Pop
                 /\ res' = res
                 /\ routeLog' = <<>>
            ELSE IF ~validates(routes[Top.idx].validator, body.v)
            THEN /\ ret' = Completion(x)
                 /\ stack' = Pop
                 /\ res' = x.res
                 /\ routeLog' = <<[idx |-> Top.idx, value |-> error,
                                   before |-> res, after |-> x.res,
                                   sends |-> <<[code |-> error.code, body |-> error]>>]>>
            ELSE /\ ret' = ret
                 /\ stack' = Append(Pop, Frame("route", Top.idx, "call", 0, NoFin))
                 /\ res' = res
                 /\ routeLog' = <<>>
    /\ UNCHANGED <<impl, isDev, options, routes, innerLen, req, outcome, invoked, nextCalls,
                   lastFin, errLog, caught, bodyReq, rawStarts, calls>>
    /\ UNCHANGED reqVars

NextValid == Next \/ ValidateStart \/ Validate

SpecValid == InitValid /\ [][NextValid]_vars

\* the text is a JSON object
IsJSONObject(text) == text \in {"{\"a\":1}", "{\"a\":1234567}"}

\* the text is JSON
IsJSON(text) == IsJSONObject(text) \/ text \in {"null", "42"}

\* the first matching route has a validator, the body is JSON, and it is not
\* an object or the validator rejects it
FirstMatchRejects ==
    /\ Matching # {}
    /\ routes[FirstMatching].validator # "none"
    /\ bodyReq.typeValid /\ IsJSON(bodyReq.content)
    /\ ~(IsJSONObject(bodyReq.content) /\ routes[FirstMatching].validator = "accept")

\* a validated route's handler runs only after the body was read, parsed to
\* an object and accepted, and only for a matching route
ValidatedBeforeInvoked ==
    \A k \in 1..Len(invoked) :
        routes[invoked[k]].validator # "none" =>
            /\ invoked[k] \in Matching
            /\ rawStarts >= 1
            /\ bodyCache = Buf(bodyReq.content)
            /\ IsJSONObject(bodyReq.content)
            /\ routes[invoked[k]].validator = "accept"

\* C18: the handler of a validated route is never invoked before
\* the body is parsed and accepted; when the body is not an object or the
\* validator rejects it, the handler is not invoked and the response is
\* finalized once with status 422 and the message as body.
C18_RejectedIs422Message ==
    /\ ValidatedBeforeInvoked
    /\ FirstMatchRejects =>
          /\ invoked = <<>>
          /\ Done /\ bodyCache # NoErr =>
                /\ res.writableEnded /\ res.endCalls = 1
                /\ res.statusCode = 422
                /\ res.body = "Request body failed validation"

\* the next step belongs to next(req, res, idx) on a route that does not match
AtNonMatchingRoute ==
    /\ impl = "chain"
    /\ stack # <<>> /\ Top.k = "next" /\ ret = NoRet
    /\ Top.idx <= Len(routes)
    /\ Top.idx \notin Matching

\* C19: a route whose method or path does not match the request leaves the
\* response, req.params and the body alone, does not invoke its handler,
\* and (chain generation) calls its next once; the loop router skips it.
\* Handlers run, and bodies are read, for matching routes only.
C19_NonMatchPassesOn ==
    [][/\ AtNonMatchingRoute /\ stack' # stack =>
             /\ res' = res
             /\ req' = req
             /\ invoked' = invoked
             /\ bodyCache' = bodyCache /\ rawStarts' = rawStarts
             /\ ret' = ret
             /\ stack' = Append(Pop, Frame("next", Top.idx + 1, "call", 0, NoFin))
       /\ impl = "loop" /\ stack # <<>> /\ Top.k = "router" /\ stack' # stack =>
             /\ invoked' = invoked
             /\ bodyCache' = bodyCache /\ rawStarts' = rawStarts
             /\ Matching # {} =>
                   /\ res' = res
                   /\ stack' = Append(Pop, Frame("route", FirstMatching, "call", 0, NoFin))
                   /\ req'.params.kv = DeclaredParams(routes[FirstMatching].path, req.pathname)
             /\ Matching = {} => req' = req
       /\ \A k \in 1..Len(invoked') : invoked'[k] \in Matching
       /\ rawStarts' > 0 => \E i \in Matching : routes[i].validator # "none"
       /\ req'.params.set => Matching # {}]_vars

C19_Witness ==
    /\ impl = "chain" /\ Done
    /\ Len(routes) = 2
    /\ routes[1].validator = "accept" /\ routes[2].validator = "none"
    /\ Matching = {2}
    /\ invoked = <<2>>
    /\ rawStarts = 0
    /\ res.body = "Hello Ada"


(***************************************************************************)
(* A router as an entry of another router (chain generation):              *)
(*   serve(router(router(routes[1..innerLen]), routes[innerLen+1..]))      *)
(* The outer router calls its first entry, the inner router, and hands it  *)
(* the continuation that leads to its own later entries.                   *)
(***************************************************************************)
InitNested ==
    /\ impl = "chain"
    /\ isDev = FALSE
    /\ options = [errorHandler |-> "unset", onError |-> FALSE]
    /\ routes \in RouteLists
    /\ innerLen \in 0..Len(routes)
    /\ req \in [method : RequestMethods, pathname : Pathnames, params : {NoParams}]
    /\ res = NewResponse
    /\ stack = <<>>
    /\ ret = NoRet
    /\ outcome = [k |-> "idle", v |-> NoErr]
    /\ invoked = <<>>
    /\ nextCalls = 0
    /\ lastFin = NoFin
    /\ routeLog = <<>>
    /\ errLog = <<>>
    /\ caught = NotCaught
    /\ InitBody
    /\ InitReqIdle

\* the listener calls the outer router, whose next(req, res, 0) awaits its
\* first entry: the inner router, which starts its own next(req, res, 0)
ServeNested ==
    /\ outcome.k = "idle"
    /\ outcome' = [k |-> "pending", v |-> NoErr]
    /\ stack' = <<Frame("serve", 0, "await", 0, NoFin),
                  Frame("outer", 1, "await", 0, NoFin),
                  Frame("next", 1, "call", 0, NoFin)>>
    /\ UNCHANGED <<impl, isDev, options, routes, innerLen, req, res, ret, invoked, nextCalls,
                   lastFin, errLog, caught>>
    /\ routeLog' = <<>>
    /\ UNCHANGED bodyVars
    /\ UNCHANGED reqVars

\* the inner router is done: the outer next() and the outer router end as
\* it ended
OuterReturn ==
    /\ stack # <<>> /\ Top.k = "outer" /\ ret # NoRet
    /\ stack' = Pop
    /\ UNCHANGED <<impl, isDev, options, routes, innerLen, req, res, ret, outcome, invoked,
                   nextCalls, lastFin, errLog, caught>>
    /\ routeLog' = <<>>
    /\ UNCHANGED bodyVars
    /\ UNCHANGED reqVars

NextNested == ServeNested \/ OuterReturn \/ Next_ \/ HandlerCall \/ UserResume
              \/ RouteRespond \/ ServeReturn \/ ServeCatch \/ PipeData \/ PipeEnd

SpecNested == InitNested /\ [][NextNested]_vars

\* the inner router's entries that match the request
InnerMatching == {i \in Matching : i <= innerLen}

\* C23: a router never invokes the continuation it is given: no next() and no
\* handler of an entry registered after it in the outer router ever runs,
\* and when none of its own entries matches the request it ends the response
\* once with 404 and 'Not Found'.
C23_NestedRouterEndsChain ==
    /\ \A k \in 1..Len(invoked) : invoked[k] <= innerLen
    /\ \A i \in 1..Len(stack) :
          /\ stack[i].k = "next" => stack[i].idx <= innerLen + 1
          /\ stack[i].k \in {"route", "user"} => stack[i].idx <= innerLen
    /\ InnerMatching = {} =>
          /\ invoked = <<>>
          /\ res.endCalls <= 1
          /\ Done => /\ outcome.k = "resolved"
                     /\ res.writableEnded
                     /\ res.endCalls = 1
                     /\ res.statusCode = 404
                     /\ res.body = "Not Found"

C23_Witness ==
    /\ Done
    /\ innerLen = 1 /\ Len(routes) = 2
    /\ routes[1].method = req.method
    /\ InnerMatching = {}
    /\ Matching = {2}
    /\ invoked = <<>>
    /\ res.statusCode = 404 /\ res.body = "Not Found"

=============================================================================
